---- MODULE Spec2Model ----
(***************************************************************************)
(* Ride lifecycle and timer subsystem of the shuttle bot.                  *)
(*                                                                         *)
(*   app/services/timer.py   TimerService   (Ride Timer Engine)            *)
(*   app/services/ride.py    RideService    (Ride Orchestrator)            *)
(*   app/services/ticket.py  TicketService  (Ticket Ledger)                *)
(*                                                                         *)
(* One asyncio event loop runs every coroutine: a coroutine runs without   *)
(* interruption from one await to the next, so each action below is the    *)
(* code between two suspension points.  The repositories are modelled by   *)
(* the relational meaning of the query each of them issues.                *)
(***************************************************************************)
EXTENDS Integers, Sequences, FiniteSets, TLC

(***************************************************************************)
(* Bounds of the model.                                                    *)
(***************************************************************************)
MaxTime == 3        \* the clock runs over 0..MaxTime
MaxTasks == 2       \* countdown tasks alive at once
MaxCallers == 2     \* concurrent invocations of the engine's API
MaxCrashes == 1     \* process crashes per behaviour
MaxDuration == 2    \* longest duration an engine client asks for
MaxTimers == 1      \* timer ids an engine client uses
MaxRides == 2       \* rows of the rides table
MaxProcs == 2       \* concurrent handler invocations of the orchestrator
NumStops == 2       \* the route has the stops of order 1..NumStops
NumUsers == 1       \* passengers (user id = chat id)
NumDrivers == 1     \* drivers
MaxPassengers == 2  \* passengers holding tickets when a stop is finalized
MaxLedger == 3      \* tickets in the ledger when a stop is finalized
MaxLatitude == 104  \* metres along the meridian of the stops
MaxMessageId == 2   \* message ids recorded for a window
MaxSent == 2        \* countdown messages sent to one chat
MaxRecordTime == 63 \* seconds a durable record is followed for
MaxDebounce == 12   \* configured values of GPS_DEBOUNCE_SECONDS
MaxMarkerTime == 11 \* seconds a debounce marker is followed for

(***************************************************************************)
(* Configuration (app/settings.py) and literals of the code.  The settings *)
(* are read from the environment; the durations run here with values of a  *)
(* few seconds, which keep their order (grace < wait, debounce < marker    *)
(* time-to-live).                                                          *)
(***************************************************************************)
WAIT_TIMER_SECONDS == 2
BOARDED_GRACE_SECONDS == 1
TTL_MARGIN == 60
GPS_DEBOUNCE_SECONDS == 2
GPS_MARKER_TTL == 10
STOP_RADIUS_METERS == 50

RideIds == 1..MaxRides
TimerIds == 1..MaxTimers
Drivers == 1..NumDrivers
Stops == 1..NumStops
Users == 1..NumUsers
Callers == 1..MaxCallers
Procs == 1..MaxProcs
None == 0

VARIABLES
    now,            \* time.time(), in whole seconds
    main,           \* app.main: "serving" | "down" | "restoring"
    crashes,        \* crashes so far
    rides,          \* the rides table as the session sees it: ride id -> row
    tickets,        \* the tickets table as the session sees it: sequence of rows
    committed,      \* [rides, tickets] as of the last session.commit()
    last_gps,       \* Redis: driver id -> the value under "last_gps:<id>"
    orch_log,       \* what arrive_at_stop logged last
    redis_timers,   \* Redis: timer id -> the value under "timer:<id>"
    active_timers,  \* TimerService.__active_timers: timer id -> task
    tasks,          \* the asyncio tasks running TimerService._run
    restoring,      \* keys restore_all_timers has still to visit
    callers,        \* invocations of start_timer / stop_timer in flight
    procs,          \* invocations of the orchestrator's handlers in flight
    sent,           \* chat id -> countdown messages sent to it so far
    expired_calls,  \* timer id -> expiry handler invocations so far
    last_log,       \* what start_timer logged last
    ticket_log      \* what TicketService logged last

dbVars == <<rides, tickets, committed>>
engineVars == <<redis_timers, active_timers, tasks, restoring, callers, expired_calls, last_log>>
orchVars == <<procs, sent, last_gps, orch_log, ticket_log>>
vars == <<now, main, crashes, rides, tickets, committed, redis_timers, active_timers, tasks,
          restoring, callers, expired_calls, last_log, procs, sent, last_gps, orch_log,
          ticket_log>>

(***************************************************************************)
(* Payloads.  A payload is the dict handed to start_timer.  Its            *)
(* "_on_expired" entry is absent, a data tag, or a reference to one of the *)
(* orchestrator's bound methods; "objects" says whether "ride" and "stop"  *)
(* are ORM instances (as the orchestrator passes them) or plain ids.       *)
(***************************************************************************)
Callables == {"fn_wait", "fn_grace"}
Tags == {"tag_wait", "tag_grace"}
HandlerRefs == {"absent"} \cup Tags \cup Callables

Payload(r, s, msgs, h, objs) ==
    [ride |-> r, stop |-> s, timer_messages |-> msgs, on_expired |-> h, objects |-> objs]

\* json.dumps(data) raises TypeError on a bound method or an ORM instance.
JsonSerializable(p) == p.on_expired \notin Callables /\ ~p.objects

\* json.loads(json.dumps(payload)): the int keys of timer_messages come back
\* as strings.
JsonRoundTrip(p) ==
    [p EXCEPT !.timer_messages = {[m EXCEPT !.key = "str"] : m \in p.timer_messages}]

\* An invocation of start_timer or stop_timer occupies a slot while it runs.
FreeCallers == Callers \ DOMAIN callers
NewCaller == CHOOSE c \in FreeCallers : \A j \in FreeCallers : c <= j
Returned(c) == [x \in DOMAIN callers \ {c} |-> callers[x]]

\* Redis keeps a key until it is deleted or its time-to-live has run out.
LiveRecord(t) == t \in DOMAIN redis_timers /\ now < redis_timers[t].expire_at

\* redis.delete("timer:<t>")
RedisDelete(t) == [x \in DOMAIN redis_timers \ {t} |-> redis_timers[x]]

(***************************************************************************)
(* Ticket Ledger and Ride Store operations the expiry handlers use.        *)
(***************************************************************************)
\* The UPDATE without the condition on the status.
mark_absent_all_tickets(tk, r, s) ==
    [i \in DOMAIN tk |->
        IF tk[i].ride = r /\ tk[i].stop = s
        THEN [tk[i] EXCEPT !.status = "ABSENT"]
        ELSE tk[i]]

\* TicketRepository.mark_absent_not_boarded_tickets: UPDATE tickets SET
\* status = ABSENT WHERE ride_id = r AND stop_id = s AND status != BOARDED.
mark_absent_not_boarded_tickets(tk, r, s) ==
    [i \in DOMAIN tk |->
        IF tk[i].ride = r /\ tk[i].stop = s /\ tk[i].status # "BOARDED"
        THEN [tk[i] EXCEPT !.status = "ABSENT"]
        ELSE tk[i]]

\* RideService.on_grace_timer_expired: finalize the stop.
on_grace_timer_expired_rides(rd, r) ==
    IF r \in DOMAIN rd
    THEN [rd EXCEPT ![r].current_stop_id = None, ![r].timer_started = FALSE]
    ELSE rd

(***************************************************************************)
(* TimerService.__call_expired_safely(payload): looks the handler up in    *)
(* the payload, never in the on_expired argument of _run.  A tag is        *)
(* truthy but not callable: the TypeError is caught and logged.            *)
(*   fn_wait  -> RideService.on_wait_timer_expired: builds the start_timer *)
(*               coroutine for the grace timer and drops it unawaited, so  *)
(*               nothing is started;                                       *)
(*   fn_grace -> RideService.on_grace_timer_expired.                       *)
(***************************************************************************)
HandlerInvoked(p) == p.on_expired \in Callables

call_expired_safely(t, p) ==
    /\ expired_calls' = IF HandlerInvoked(p)
                        THEN [expired_calls EXCEPT ![t] = @ + 1]
                        ELSE expired_calls
    /\ IF p.on_expired = "fn_grace"
       THEN /\ tickets' = mark_absent_not_boarded_tickets(tickets, p.ride, p.stop)
            /\ rides' = on_grace_timer_expired_rides(rides, p.ride)
       ELSE UNCHANGED <<rides, tickets>>
    /\ UNCHANGED committed

(***************************************************************************)
(* TimerService.start_timer                                                *)
(***************************************************************************)
\* A task lives in a slot from its creation until it has finished.
FreeSlots == (1..MaxTasks) \ DOMAIN tasks
NewSlot == CHOOSE k \in FreeSlots : \A j \in FreeSlots : k <= j
Finished(k) == [x \in DOMAIN tasks \ {k} |-> tasks[x]]

NewTask(t, d, tick, p, endAt, isRestored) ==
    [timer_id |-> t, duration |-> d, remaining |-> d, on_tick |-> tick,
     payload |-> p, pc |-> "new", wake |-> now, cancelled |-> FALSE,
     restored |-> isRestored, end_at |-> endAt, ticks |-> <<>>]

\* start_timer without the check of lines 48-50.
StartTimerCallUnguarded(t, ty, d, tick, p) ==
    /\ main = "serving"
    /\ FreeCallers # {}
    /\ IF ~JsonSerializable(p)
       THEN /\ last_log' = "start_failed"
            /\ UNCHANGED callers
       ELSE /\ callers' = (NewCaller :>
                   [pc |-> "saving", timer_id |-> t, type |-> ty, duration |-> d,
                    on_tick |-> tick, payload |-> p, end_at |-> now + d]) @@ callers
            /\ UNCHANGED last_log
    /\ UNCHANGED <<now, main, crashes, dbVars, redis_timers, active_timers, tasks,
                   restoring, orchVars, expired_calls>>

\* Up to the first await: the duplicate check, then __save_timer_state builds
\* the record (end_at = int(time.time()) + duration) and json.dumps it.
StartTimerCall(t, ty, d, tick, p) ==
    /\ main = "serving"
    /\ FreeCallers # {}
    /\ IF t \in DOMAIN active_timers
       THEN /\ last_log' = "already_started"
            /\ UNCHANGED callers
       ELSE IF ~JsonSerializable(p)
       THEN /\ last_log' = "start_failed"
            /\ UNCHANGED callers
       ELSE /\ callers' = (NewCaller :>
                   [pc |-> "saving", timer_id |-> t, type |-> ty, duration |-> d,
                    on_tick |-> tick, payload |-> p, end_at |-> now + d]) @@ callers
            /\ UNCHANGED last_log
    /\ UNCHANGED <<now, main, crashes, dbVars, redis_timers, active_timers, tasks,
                   restoring, orchVars, expired_calls>>

\* start_timer going on to create the task although the write has failed.
StartTimerSaveIgnoringError(c, ok) ==
    /\ c \in DOMAIN callers
    /\ callers[c].pc = "saving"
    /\ redis_timers' = IF ok
                       THEN (callers[c].timer_id :>
                               [type |-> callers[c].type, duration |-> callers[c].duration,
                                end_at |-> callers[c].end_at,
                                payload |-> JsonRoundTrip(callers[c].payload),
                                expire_at |-> now + callers[c].duration + TTL_MARGIN])
                            @@ redis_timers
                       ELSE redis_timers
    /\ callers' = [callers EXCEPT ![c].pc = "saved"]
    /\ last_log' = IF ok THEN last_log ELSE "redis_error"
    /\ UNCHANGED <<now, main, crashes, dbVars, active_timers, tasks,
                   restoring, orchVars, expired_calls>>

\* redis.set(..., ex=duration) with no margin.
StartTimerSaveNoMargin(c, ok) ==
    /\ c \in DOMAIN callers
    /\ callers[c].pc = "saving"
    /\ IF ok
       THEN /\ redis_timers' = (callers[c].timer_id :>
                   [type |-> callers[c].type, duration |-> callers[c].duration,
                    end_at |-> callers[c].end_at,
                    payload |-> JsonRoundTrip(callers[c].payload),
                    expire_at |-> now + callers[c].duration]) @@ redis_timers
            /\ callers' = [callers EXCEPT ![c].pc = "saved"]
            /\ UNCHANGED last_log
       ELSE /\ callers' = Returned(c)
            /\ last_log' = "redis_error"
            /\ UNCHANGED redis_timers
    /\ UNCHANGED <<now, main, crashes, dbVars, active_timers, tasks,
                   restoring, orchVars, expired_calls>>

\* await redis.set("timer:<id>", json, ex=duration + 60): the write lands, or
\* raises RedisError, which start_timer logs and swallows.
StartTimerSave(c, ok) ==
    /\ c \in DOMAIN callers
    /\ callers[c].pc = "saving"
    /\ IF ok
       THEN /\ redis_timers' = (callers[c].timer_id :>
                   [type |-> callers[c].type, duration |-> callers[c].duration,
                    end_at |-> callers[c].end_at,
                    payload |-> JsonRoundTrip(callers[c].payload),
                    expire_at |-> now + callers[c].duration + TTL_MARGIN]) @@ redis_timers
            /\ callers' = [callers EXCEPT ![c].pc = "saved"]
            /\ UNCHANGED last_log
       ELSE /\ callers' = Returned(c)
            /\ last_log' = "redis_error"
            /\ UNCHANGED redis_timers
    /\ UNCHANGED <<now, main, crashes, dbVars, active_timers, tasks,
                   restoring, orchVars, expired_calls>>

\* After the await: asyncio.create_task(self._run(...)) and the registration.
StartTimerRegister(c) ==
    /\ c \in DOMAIN callers
    /\ callers[c].pc = "saved"
    /\ FreeSlots # {}
    /\ tasks' = (NewSlot :> NewTask(callers[c].timer_id, callers[c].duration,
                   callers[c].on_tick, callers[c].payload, callers[c].end_at, FALSE)) @@ tasks
    /\ active_timers' = (callers[c].timer_id :> NewSlot) @@ active_timers
    /\ callers' = Returned(c)
    /\ last_log' = "started"
    /\ UNCHANGED <<now, main, crashes, dbVars, redis_timers,
                   restoring, orchVars, expired_calls>>

(***************************************************************************)
(* TimerService.stop_timer                                                 *)
(***************************************************************************)
Unregister(t) == [x \in DOMAIN active_timers \ {t} |-> active_timers[x]]

\* stop_timer without the task.cancel() of line 81.
StopTimerCallNoCancel(t) ==
    /\ main = "serving"
    /\ FreeCallers # {}
    /\ active_timers' = Unregister(t)
    /\ callers' = (NewCaller :> [pc |-> "deleting", timer_id |-> t]) @@ callers
    /\ UNCHANGED <<now, main, crashes, dbVars, redis_timers, tasks,
                   restoring, orchVars, expired_calls, last_log>>

\* Up to the await: a registered task is cancelled and its id removed from
\* the registry.
StopTimerCall(t) ==
    /\ main = "serving"
    /\ FreeCallers # {}
    /\ IF t \in DOMAIN active_timers
       THEN /\ tasks' = [tasks EXCEPT ![active_timers[t]].cancelled = TRUE]
            /\ active_timers' = Unregister(t)
       ELSE UNCHANGED <<tasks, active_timers>>
    /\ callers' = (NewCaller :> [pc |-> "deleting", timer_id |-> t]) @@ callers
    /\ UNCHANGED <<now, main, crashes, dbVars, redis_timers,
                   restoring, orchVars, expired_calls, last_log>>

\* await redis.delete("timer:<id>"): the delete lands and "stopped" is
\* logged, or it raises RedisError, which is logged and swallowed.
StopTimerDelete(c, ok) ==
    /\ c \in DOMAIN callers
    /\ callers[c].pc = "deleting"
    /\ redis_timers' = IF ok THEN RedisDelete(callers[c].timer_id) ELSE redis_timers
    /\ last_log' = IF ok THEN "stopped" ELSE "stop_redis_error"
    /\ callers' = Returned(c)
    /\ UNCHANGED <<now, main, crashes, dbVars, active_timers, tasks,
                   restoring, orchVars, expired_calls>>

(***************************************************************************)
(* TimerService._run                                                       *)
(***************************************************************************)
\* The tick callbacks a countdown may carry: none, one that returns, one
\* that raises an Exception each time it is called.
TickCallbacks == {"none", "on_tick", "on_tick_raising"}

\* __call_tick_safely: the call sits in try / except Exception, which logs.
call_tick_safely(tick) == "returned"

\* One turn of the loop: the task wakes from asyncio.sleep(1) (or starts),
\* and either finds the range exhausted and calls __call_expired_safely, or
\* checks that its id is still registered, ticks, and sleeps again.  A
\* return, like the end of the loop or an Exception that reaches the except
\* clause of _run, enters "finally", which pops the id.
TimerStep(k) ==
    /\ k \in DOMAIN tasks
    /\ tasks[k].pc \in {"new", "loop"}
    /\ ~tasks[k].cancelled
    /\ tasks[k].wake <= now
    /\ IF tasks[k].remaining = 0
       THEN /\ call_expired_safely(tasks[k].timer_id, tasks[k].payload)
            /\ active_timers' = Unregister(tasks[k].timer_id)
            /\ tasks' = [tasks EXCEPT ![k].pc = "cleanup"]
       ELSE IF tasks[k].timer_id \notin DOMAIN active_timers
       THEN /\ tasks' = [tasks EXCEPT ![k].pc = "cleanup"]
            /\ UNCHANGED <<active_timers, dbVars, expired_calls>>
       ELSE IF tasks[k].on_tick # "none" /\ call_tick_safely(tasks[k].on_tick) = "raised"
       THEN /\ tasks' = [tasks EXCEPT
                   ![k].pc = "cleanup",
                   ![k].ticks = Append(@, tasks[k].remaining)]
            /\ active_timers' = Unregister(tasks[k].timer_id)
            /\ UNCHANGED <<dbVars, expired_calls>>
       ELSE /\ tasks' = [tasks EXCEPT
                   ![k].pc = "loop",
                   ![k].ticks = IF tasks[k].on_tick # "none"
                                THEN Append(@, tasks[k].remaining) ELSE @,
                   ![k].remaining = @ - 1,
                   ![k].wake = now + 1]
            /\ UNCHANGED <<active_timers, dbVars, expired_calls>>
    /\ UNCHANGED <<now, main, crashes, redis_timers, restoring, callers, orchVars,
                   last_log>>

\* task.cancel(): CancelledError is thrown into the task at its await.  A
\* task that never ran is finished without entering its try block; a
\* running one goes through "finally", which pops whatever is registered
\* under its id at that moment.
TimerCancelled(k) ==
    /\ k \in DOMAIN tasks
    /\ tasks[k].pc \in {"new", "loop"}
    /\ tasks[k].cancelled
    /\ IF tasks[k].pc = "new"
       THEN /\ tasks' = Finished(k)
            /\ UNCHANGED active_timers
       ELSE /\ tasks' = [tasks EXCEPT ![k].pc = "cleanup"]
            /\ active_timers' = Unregister(tasks[k].timer_id)
    /\ UNCHANGED <<now, main, crashes, dbVars, redis_timers, restoring, callers,
                   orchVars, expired_calls, last_log>>

\* A finally clause that leaves the durable record in place.
TimerCleanupKeepsRecord(k, ok) ==
    /\ k \in DOMAIN tasks
    /\ tasks[k].pc = "cleanup"
    /\ tasks' = Finished(k)
    /\ UNCHANGED <<now, main, crashes, dbVars, redis_timers, active_timers, restoring,
                   callers, orchVars, expired_calls, last_log>>

\* finally: await redis.delete("timer:<id>"); a RedisError is logged.
TimerCleanup(k, ok) ==
    /\ k \in DOMAIN tasks
    /\ tasks[k].pc = "cleanup"
    /\ redis_timers' = IF ok THEN RedisDelete(tasks[k].timer_id)
                       ELSE redis_timers
    /\ tasks' = Finished(k)
    /\ UNCHANGED <<now, main, crashes, dbVars, active_timers, restoring, callers,
                   orchVars, expired_calls, last_log>>

(***************************************************************************)
(* Process lifetime: crash, restart, TimerService.restore_all_timers       *)
(***************************************************************************)
\* The process dies: every task and coroutine is gone, the session's
\* uncommitted changes are rolled back; Redis keeps its keys.
Crash ==
    /\ main # "down"
    /\ crashes < MaxCrashes
    /\ main' = "down"
    /\ crashes' = crashes + 1
    /\ active_timers' = <<>>
    /\ tasks' = <<>>
    /\ restoring' = {}
    /\ callers' = <<>>
    /\ procs' = <<>>
    /\ rides' = committed.rides
    /\ tickets' = committed.tickets
    /\ UNCHANGED <<now, committed, redis_timers, sent, last_gps, orch_log, ticket_log,
                   expired_calls, last_log>>

\* app.main: restore_ride_timers() runs before polling starts;
\* redis.scan_iter("timer:*") yields the keys that have not expired.
Restart ==
    /\ main = "down"
    /\ main' = "restoring"
    /\ restoring' = {t \in TimerIds : LiveRecord(t)}
    /\ UNCHANGED <<now, crashes, dbVars, redis_timers, active_timers, tasks,
                   callers, orchVars, expired_calls, last_log>>

\* restore_all_timers handing the recreated countdown a tick callback.
RestoreOneWithTicks(t) ==
    /\ main = "restoring"
    /\ t \in restoring
    /\ restoring' = restoring \ {t}
    /\ IF ~LiveRecord(t)
       THEN UNCHANGED <<redis_timers, active_timers, tasks, dbVars, expired_calls>>
       ELSE IF redis_timers[t].end_at - now <= 0
       THEN /\ redis_timers' = RedisDelete(t)
            /\ call_expired_safely(t, redis_timers[t].payload)
            /\ UNCHANGED <<active_timers, tasks>>
       ELSE /\ FreeSlots # {}
            /\ tasks' = (NewSlot :> NewTask(t, redis_timers[t].end_at - now, "on_tick",
                           redis_timers[t].payload, redis_timers[t].end_at, TRUE)) @@ tasks
            /\ active_timers' = (t :> NewSlot) @@ active_timers
            /\ UNCHANGED <<redis_timers, dbVars, expired_calls>>
    /\ UNCHANGED <<now, main, crashes, callers, orchVars, last_log>>

\* One turn of the loop of restore_all_timers.
RestoreOne(t) ==
    /\ main = "restoring"
    /\ t \in restoring
    /\ restoring' = restoring \ {t}
    /\ IF ~LiveRecord(t)
       THEN UNCHANGED <<redis_timers, active_timers, tasks, dbVars, expired_calls>>
       ELSE IF redis_timers[t].end_at - now <= 0
       THEN /\ redis_timers' = RedisDelete(t)
            /\ call_expired_safely(t, redis_timers[t].payload)
            /\ UNCHANGED <<active_timers, tasks>>
       ELSE /\ FreeSlots # {}
            /\ tasks' = (NewSlot :> NewTask(t, redis_timers[t].end_at - now, "none",
                           redis_timers[t].payload, redis_timers[t].end_at, TRUE)) @@ tasks
            /\ active_timers' = (t :> NewSlot) @@ active_timers
            /\ UNCHANGED <<redis_timers, dbVars, expired_calls>>
    /\ UNCHANGED <<now, main, crashes, callers, orchVars, last_log>>

RestoreDone ==
    /\ main = "restoring"
    /\ restoring = {}
    /\ main' = "serving"
    /\ UNCHANGED <<now, crashes, dbVars, engineVars, orchVars>>

\* A second passes.
\* A task whose sleep is over runs before the next second passes, and a
\* request to Redis is answered within the second it was sent in.
Due(k) == tasks[k].pc \in {"new", "loop"} /\ tasks[k].wake <= now

TimeAdvance ==
    /\ now < MaxTime
    /\ \A k \in DOMAIN tasks : ~Due(k) /\ tasks[k].pc # "cleanup"
    /\ callers = <<>>
    /\ procs = <<>>
    /\ now' = now + 1
    /\ UNCHANGED <<main, crashes, dbVars, engineVars, orchVars>>

(***************************************************************************)
(* Queries of the repositories, as the services consume them.              *)
(***************************************************************************)
FreeProcs == Procs \ DOMAIN procs
NewProc == CHOOSE p \in FreeProcs : \A j \in FreeProcs : p <= j
ProcReturned(p) == [x \in DOMAIN procs \ {p} |-> procs[x]]

RidesOfDriver(d) == {r \in DOMAIN rides : rides[r].driver_id = d}

\* RideRepository.get_ride_by_driver ends in scalar_one(): no row or several
\* rows raise, and RideService.get_active_ride answers None then.  The same
\* holds of StopRepository.get_stop_n_ride_by_driver, which joins the ride
\* with its next stop.
get_active_ride(d) ==
    IF Cardinality(RidesOfDriver(d)) = 1
    THEN CHOOSE r \in RidesOfDriver(d) : TRUE
    ELSE None

\* StopService.get_stop_by_order: None when no stop has that order.
get_stop_by_order(o) == IF o \in Stops THEN o ELSE None

\* TicketService.has_waiting_passengers: the count of PENDING tickets joined
\* to the rides whose current stop is s.
has_waiting_passengers(s) ==
    \E i \in DOMAIN tickets :
        /\ tickets[i].status = "PENDING"
        /\ rides[tickets[i].ride].current_stop_id = s

\* RideService.__get_chat_ids_by_ride: the users joined to the ride's tickets.
get_chat_ids_by_ride(r) == {tickets[i].user : i \in {j \in DOMAIN tickets : tickets[j].ride = r}}

\* TicketRepository.get_active_ticket ends in scalar_one_or_none(): several
\* PENDING tickets raise, and TicketService.get_active_ticket answers None.
PendingOf(u) == {i \in DOMAIN tickets : tickets[i].user = u /\ tickets[i].status = "PENDING"}
get_active_ticket(u) ==
    IF Cardinality(PendingOf(u)) = 1 THEN CHOOSE i \in PendingOf(u) : TRUE ELSE None

\* RideRepository.get_by_status(IN_PROGRESS): limit(1).scalar_one()
InProgress == {r \in DOMAIN rides : rides[r].status = "IN_PROGRESS"}

(***************************************************************************)
(* RideService.start_ride, from driver_stop_selected_handler               *)
(***************************************************************************)
StartRide(d, s) ==
    /\ main = "serving"
    /\ Len(rides) < MaxRides
    /\ rides' = Append(rides,
          [status |-> "CREATED", driver_id |-> d, current_stop_id |-> None,
           next_stop_id |-> s, timer_started |-> FALSE])
    /\ committed' = [rides |-> rides', tickets |-> tickets]
    /\ UNCHANGED <<now, main, crashes, tickets, engineVars, orchVars>>

(***************************************************************************)
(* TicketService, from the passenger's handlers                            *)
(***************************************************************************)
\* UPDATE tickets SET stop_id = s WHERE id = i, had the statement been built.
update_ticket_stop_by_id(tk, i, s) == [raised |-> FALSE, tickets |-> [tk EXCEPT ![i].stop = s]]

\* UPDATE tickets SET status = st WHERE id = i, had the statement been built.
change_status_by_id(tk, i, st) == [raised |-> FALSE, tickets |-> [tk EXCEPT ![i].status = st]]

\* TicketRepository.update_ticket_stop builds update(Ticket).filter_by(
\* ticket_id=...): Ticket has the attribute id and no attribute ticket_id, so
\* filter_by raises InvalidRequestError (a SQLAlchemyError) before anything
\* is sent to the database.  No row changes.
update_ticket_stop(tk, i, s) == [raised |-> TRUE, tickets |-> tk]

\* TicketRepository.change_status: the same filter_by(ticket_id=...).
change_status(tk, i, st) == [raised |-> TRUE, tickets |-> tk]

\* A row may be inserted unless it breaks uq_user_ride.
UniqueUserRide(tk, u, r) == ~\E i \in DOMAIN tk : tk[i].user = u /\ tk[i].ride = r

\* create_or_update_ticket: for a user with a PENDING ticket,
\* update_ticket_stop is called (the error it raises is re-raised as
\* TicketServiceError); without one a ticket is created on the IN_PROGRESS
\* ride and committed.  No such ride raises RideNotFoundError; a second ticket
\* of the user on the ride breaks uq_user_ride and raises.
CreateOrUpdateTicket(u, s) ==
    /\ main = "serving"
    /\ IF get_active_ticket(u) # None
       THEN /\ tickets' = update_ticket_stop(tickets, get_active_ticket(u), s).tickets
            /\ ticket_log' = IF update_ticket_stop(tickets, get_active_ticket(u), s).raised
                             THEN "error" ELSE "updated"
            /\ UNCHANGED committed
       ELSE IF InProgress = {}
       THEN /\ ticket_log' = "no_ride"
            /\ UNCHANGED <<tickets, committed>>
       ELSE \E r \in InProgress :
               IF ~UniqueUserRide(tickets, u, r)
               THEN /\ ticket_log' = "error"
                    /\ UNCHANGED <<tickets, committed>>
               ELSE /\ tickets' = Append(tickets,
                          [user |-> u, ride |-> r, stop |-> s, status |-> "PENDING"])
                    /\ committed' = [rides |-> rides, tickets |-> tickets']
                    /\ ticket_log' = "created"
    /\ UNCHANGED <<now, main, crashes, rides, engineVars, procs, sent, last_gps, orch_log>>

\* passenger_boarded_handler / canceled_active_ticket_handler: the active
\* ticket of the user is handed to mark_as_boarded / mark_as_absent, which
\* call change_status, log its error and re-raise it as TicketServiceError.
MarkActiveTicket(u, st) ==
    /\ main = "serving"
    /\ get_active_ticket(u) # None
    /\ tickets' = change_status(tickets, get_active_ticket(u), st).tickets
    /\ ticket_log' = IF change_status(tickets, get_active_ticket(u), st).raised
                     THEN "mark_error" ELSE "marked"
    /\ UNCHANGED <<now, main, crashes, rides, committed, engineVars, procs, sent, last_gps,
                   orch_log>>

\* mark_as_boarded(ticket_id=i) / mark_as_absent(ticket_id=i) called for any
\* ticket id: an unknown id raises TicketNotFoundError; for a known one
\* change_status is called whatever the ticket's status is.
MarkTicketById(i, st) ==
    /\ main = "serving"
    /\ IF i \notin DOMAIN tickets
       THEN /\ ticket_log' = "not_found"
            /\ UNCHANGED tickets
       ELSE /\ tickets' = change_status(tickets, i, st).tickets
            /\ ticket_log' = IF change_status(tickets, i, st).raised
                             THEN "mark_error" ELSE "marked"
    /\ UNCHANGED <<now, main, crashes, rides, committed, engineVars, procs, sent, last_gps,
                   orch_log>>

(***************************************************************************)
(* RideService.arrive_at_stop                                              *)
(***************************************************************************)
\* arrive_at_stop without the check of lines 163-165.
arrive_at_stop_unguarded(r, s) ==
    /\ FreeProcs # {}
    /\ IF r = None
       THEN /\ orch_log' = "error"
            /\ UNCHANGED procs
       ELSE /\ procs' = (NewProc :> [pc |-> "next_stop", ride |-> r, stop |-> s]) @@ procs
            /\ UNCHANGED orch_log

\* Up to the first await.  A ride of None (the driver has no single ride)
\* raises AttributeError, re-raised as RideServiceError.
arrive_at_stop(r, s) ==
    /\ FreeProcs # {}
    /\ IF r = None
       THEN /\ orch_log' = "error"
            /\ UNCHANGED procs
       ELSE IF rides[r].timer_started
       THEN /\ orch_log' = "timer_already_started"
            /\ UNCHANGED procs
       ELSE /\ procs' = (NewProc :> [pc |-> "next_stop", ride |-> r, stop |-> s]) @@ procs
            /\ UNCHANGED orch_log

\* driver_stop_noted_handler: the driver marks a stop by hand.
DriverStopNoted(d, s) ==
    /\ main = "serving"
    /\ arrive_at_stop(get_active_ride(d), s)
    /\ UNCHANGED <<now, main, crashes, dbVars, engineVars, sent, last_gps, ticket_log>>

\* An arrival that also puts the ride IN_PROGRESS.
ArriveNextStopStartingRide(p) ==
    /\ p \in DOMAIN procs
    /\ procs[p].pc = "next_stop"
    /\ IF get_stop_by_order(procs[p].stop + 1) = None
       THEN /\ orch_log' = "no_next_stop"
            /\ procs' = ProcReturned(p)
            /\ UNCHANGED rides
       ELSE /\ rides' = [rides EXCEPT
                   ![procs[p].ride].status = "IN_PROGRESS",
                   ![procs[p].ride].current_stop_id = procs[p].stop,
                   ![procs[p].ride].next_stop_id = get_stop_by_order(procs[p].stop + 1)]
            /\ procs' = [procs EXCEPT ![p].pc = "has_waiting"]
            /\ UNCHANGED orch_log
    /\ UNCHANGED <<now, main, crashes, tickets, committed, engineVars, sent, last_gps, ticket_log>>

\* get_stop_by_order(order + 1), then update_ride_stops.
ArriveNextStop(p) ==
    /\ p \in DOMAIN procs
    /\ procs[p].pc = "next_stop"
    /\ IF get_stop_by_order(procs[p].stop + 1) = None
       THEN /\ orch_log' = "no_next_stop"
            /\ procs' = ProcReturned(p)
            /\ UNCHANGED rides
       ELSE /\ rides' = [rides EXCEPT
                   ![procs[p].ride].current_stop_id = procs[p].stop,
                   ![procs[p].ride].next_stop_id = get_stop_by_order(procs[p].stop + 1)]
            /\ procs' = [procs EXCEPT ![p].pc = "has_waiting"]
            /\ UNCHANGED orch_log
    /\ UNCHANGED <<now, main, crashes, tickets, committed, engineVars, sent, last_gps, ticket_log>>

ArriveHasWaiting(p) ==
    /\ p \in DOMAIN procs
    /\ procs[p].pc = "has_waiting"
    /\ IF has_waiting_passengers(procs[p].stop)
       THEN /\ procs' = [procs EXCEPT ![p].pc = "chats"]
            /\ UNCHANGED orch_log
       ELSE /\ procs' = ProcReturned(p)
            /\ orch_log' = "no_waiting"
    /\ UNCHANGED <<now, main, crashes, dbVars, engineVars, sent, last_gps, ticket_log>>

(***************************************************************************)
(* RideService._schedule_ride_timer                                        *)
(***************************************************************************)
ArriveChats(p) ==
    /\ p \in DOMAIN procs
    /\ procs[p].pc = "chats"
    /\ procs' = [procs EXCEPT ![p] =
          [pc |-> "send", ride |-> procs[p].ride, stop |-> procs[p].stop,
           chats |-> get_chat_ids_by_ride(procs[p].ride)]]
    /\ UNCHANGED <<now, main, crashes, dbVars, engineVars, sent, last_gps, orch_log, ticket_log>>

\* self.__timer_service.start_timer(...) is called without await: the
\* coroutine object is built and dropped, start_timer's body never runs.
start_timer_not_awaited(t, ty, d, tick, p) == UNCHANGED engineVars

\* The messages go out (send_timer_message may raise for a chat, which is
\* skipped), the start_timer coroutine is built, and ride.timer_started is
\* set, all before the next await, which is the save.
ArriveSend(p, delivered) ==
    /\ p \in DOMAIN procs
    /\ procs[p].pc = "send"
    /\ delivered \subseteq procs[p].chats
    /\ sent' = [c \in Users |-> IF c \in delivered THEN sent[c] + 1 ELSE sent[c]]
    /\ start_timer_not_awaited(procs[p].ride, "wait", WAIT_TIMER_SECONDS, "on_wait_tick",
          Payload(procs[p].ride, procs[p].stop,
                  {[chat |-> c, message_id |-> sent[c] + 1, key |-> "int"] : c \in delivered},
                  "fn_wait", TRUE))
    /\ rides' = [rides EXCEPT ![procs[p].ride].timer_started = TRUE]
    /\ procs' = [procs EXCEPT ![p].pc = "save"]
    /\ UNCHANGED <<now, main, crashes, tickets, committed, last_gps, orch_log, ticket_log>>

\* await self.__ride_repo.save(ride=ride)
ArriveSave(p) ==
    /\ p \in DOMAIN procs
    /\ procs[p].pc = "save"
    /\ procs' = ProcReturned(p)
    /\ orch_log' = "arrived"
    /\ UNCHANGED <<now, main, crashes, dbVars, engineVars, sent, last_gps, ticket_log>>

(***************************************************************************)
(* RideService.process_driver_location                                     *)
(***************************************************************************)
\* last and now - float(last) < settings.GPS_DEBOUNCE_SECONDS, for a
\* configured value g of the setting.
DebouncedUnder(g, d, at) ==
    /\ d \in DOMAIN last_gps
    /\ now < last_gps[d].expire_at
    /\ at - last_gps[d].at < g

Debounced(d, at) == DebouncedUnder(GPS_DEBOUNCE_SECONDS, d, at)

\* Up to the first await: a share without a live period returns at once;
\* otherwise now = time.time() is taken and redis.get is awaited.
ProcessDriverLocation(d, live) ==
    /\ main = "serving"
    /\ FreeProcs # {}
    /\ procs' = IF live
                THEN (NewProc :> [pc |-> "gps_get", driver |-> d, at |-> now]) @@ procs
                ELSE procs
    /\ UNCHANGED <<now, main, crashes, dbVars, engineVars, sent, last_gps, orch_log, ticket_log>>

\* Handlers for RedisError and SQLAlchemyError only, without the clause
\* "except Exception".
location_except_db_redis_only(exc) ==
    IF exc \in {"RedisError", "SQLAlchemyError"} THEN "location_error" ELSE "location_raised"

\* The except clauses of process_driver_location: RedisError,
\* SQLAlchemyError and any other Exception are logged, and the call goes on
\* to "return None".
location_except(exc) == "location_error"

\* redis.get has answered: the debounce check; a RedisError is caught and
\* the call returns None.
LocationDebounceUnder(g, p, ok) ==
    /\ p \in DOMAIN procs
    /\ procs[p].pc = "gps_get"
    /\ IF ~ok
       THEN /\ procs' = ProcReturned(p)
            /\ orch_log' = location_except("RedisError")
       ELSE /\ procs' = IF DebouncedUnder(g, procs[p].driver, procs[p].at)
                        THEN ProcReturned(p)
                        ELSE [procs EXCEPT ![p].pc = "gps_set"]
            /\ UNCHANGED orch_log
    /\ UNCHANGED <<now, main, crashes, dbVars, engineVars, sent, last_gps, ticket_log>>

LocationDebounce(p, ok) == LocationDebounceUnder(GPS_DEBOUNCE_SECONDS, p, ok)

\* redis.set("last_gps:<driver>", now, ex=10) has answered; a RedisError is
\* caught and the call returns None.
LocationMark(p, ok) ==
    /\ p \in DOMAIN procs
    /\ procs[p].pc = "gps_set"
    /\ IF ok
       THEN /\ last_gps' = (procs[p].driver :>
                   [at |-> procs[p].at, expire_at |-> now + GPS_MARKER_TTL]) @@ last_gps
            /\ procs' = [procs EXCEPT ![p].pc = "gps_lookup"]
            /\ UNCHANGED orch_log
       ELSE /\ procs' = ProcReturned(p)
            /\ orch_log' = location_except("RedisError")
            /\ UNCHANGED last_gps
    /\ UNCHANGED <<now, main, crashes, dbVars, engineVars, sent, ticket_log>>

\* get_stop_n_ride_by_driver has answered.  Its scalar_one() raises for a
\* driver with no ride or with several; for one row it returns the first
\* column alone, a Stop, and "stop, ride = <Stop>" raises TypeError.  Either
\* error is caught by process_driver_location, which returns None:
\* find_stop_in_radius and arrive_at_stop are not reached, wherever the
\* reported point lies (within: it is within STOP_RADIUS_METERS of the next
\* stop of the driver's ride).
LocationLookup(p, within) ==
    /\ p \in DOMAIN procs
    /\ procs[p].pc = "gps_lookup"
    /\ procs' = ProcReturned(p)
    /\ orch_log' = location_except(IF Cardinality(RidesOfDriver(procs[p].driver)) = 1
                                   THEN "TypeError" ELSE "SQLAlchemyError")
    /\ UNCHANGED <<now, main, crashes, dbVars, engineVars, sent, last_gps, ticket_log>>

(***************************************************************************)
(* The program as it is wired: the handlers of the drivers and of the      *)
(* passengers, run against a database that holds no ride yet or one ride   *)
(* IN_PROGRESS.                                                            *)
(***************************************************************************)
SeedRide ==
    [status |-> "IN_PROGRESS", driver_id |-> 1, current_stop_id |-> None,
     next_stop_id |-> 1, timer_started |-> FALSE]

Init ==
    /\ now = 0
    /\ main = "serving"
    /\ crashes = 0
    /\ rides \in {<<>>, <<SeedRide>>}
    /\ tickets = <<>>
    /\ committed = [rides |-> rides, tickets |-> tickets]
    /\ redis_timers = <<>>
    /\ active_timers = <<>>
    /\ tasks = <<>>
    /\ restoring = {}
    /\ callers = <<>>
    /\ last_log = "none"
    /\ procs = <<>>
    /\ last_gps = <<>>
    /\ orch_log = "none"
    /\ ticket_log = "none"
    /\ sent = [u \in Users |-> 0]
    /\ expired_calls = [t \in TimerIds |-> 0]

\* What the drivers and the passengers do.
Handlers ==
    \/ \E d \in Drivers, s \in Stops : StartRide(d, s)
    \/ \E u \in Users, s \in Stops : CreateOrUpdateTicket(u, s)
    \/ \E u \in Users, st \in {"BOARDED", "ABSENT"} : MarkActiveTicket(u, st)
    \/ \E d \in Drivers, s \in Stops : DriverStopNoted(d, s)
    \/ \E d \in Drivers, live \in BOOLEAN : ProcessDriverLocation(d, live)

\* An invocation of arrive_at_stop or of process_driver_location resumes
\* after an await.
ProcSteps ==
    \/ \E p \in Procs : ArriveNextStop(p)
    \/ \E p \in Procs : ArriveHasWaiting(p)
    \/ \E p \in Procs : ArriveChats(p)
    \/ \E p \in Procs, delivered \in SUBSET Users : ArriveSend(p, delivered)
    \/ \E p \in Procs : ArriveSave(p)
    \/ \E p \in Procs, ok \in BOOLEAN : LocationDebounce(p, ok)
    \/ \E p \in Procs, ok \in BOOLEAN : LocationMark(p, ok)
    \/ \E p \in Procs, within \in BOOLEAN : LocationLookup(p, within)

Next ==
    \/ Handlers
    \/ ProcSteps
    \/ Crash
    \/ Restart
    \/ RestoreDone
    \/ TimeAdvance

Spec == Init /\ [][Next]_vars

\* The same program with the scheduling the event loop and the deployment
\* give: a coroutine whose await has been answered resumes, a stopped process
\* is started again, and time passes.  Nothing obliges a driver or a
\* passenger to act.
SpecFairCrash ==
    Spec /\ WF_vars(ProcSteps) /\ WF_vars(Restart) /\ WF_vars(RestoreDone) /\ WF_vars(TimeAdvance)

\* The program in a run without a crash.
NextNoCrash ==
    \/ Handlers
    \/ ProcSteps
    \/ TimeAdvance

SpecFair ==
    Init /\ [][NextNoCrash]_vars /\ WF_vars(ProcSteps) /\ WF_vars(TimeAdvance)

(***************************************************************************)
(* The engine driven through its API by a client holding data payloads     *)
(* and payloads that carry the orchestrator's callables.                   *)
(***************************************************************************)
ClientPayloads(t) ==
    {Payload(t, 1, {}, "tag_wait", FALSE), Payload(t, 1, {}, "fn_wait", TRUE)}

InitTimer ==
    /\ now = 0
    /\ main = "serving"
    /\ crashes = 0
    /\ rides = <<SeedRide>>
    /\ tickets = <<>>
    /\ committed = [rides |-> rides, tickets |-> tickets]
    /\ redis_timers = <<>>
    /\ active_timers = <<>>
    /\ tasks = <<>>
    /\ restoring = {}
    /\ callers = <<>>
    /\ last_log = "none"
    /\ procs = <<>>
    /\ last_gps = <<>>
    /\ orch_log = "none"
    /\ ticket_log = "none"
    /\ sent = [u \in Users |-> 0]
    /\ expired_calls = [t \in TimerIds |-> 0]

NextTimer ==
    \/ \E t \in TimerIds, ty \in {"wait"}, d \in 1..MaxDuration,
          tick \in {"on_tick"} :
          \E p \in ClientPayloads(t) : StartTimerCall(t, ty, d, tick, p)
    \/ \E c \in Callers, ok \in BOOLEAN : StartTimerSave(c, ok)
    \/ \E c \in Callers : StartTimerRegister(c)
    \/ \E t \in TimerIds : StopTimerCall(t)
    \/ \E c \in Callers, ok \in BOOLEAN : StopTimerDelete(c, ok)
    \/ \E k \in 1..MaxTasks : TimerStep(k)
    \/ \E k \in 1..MaxTasks : TimerCancelled(k)
    \/ \E k \in 1..MaxTasks, ok \in BOOLEAN : TimerCleanup(k, ok)
    \/ Crash
    \/ Restart
    \/ \E t \in TimerIds : RestoreOne(t)
    \/ RestoreDone
    \/ TimeAdvance

SpecTimer == InitTimer /\ [][NextTimer]_vars

(***************************************************************************)
(* The engine driven by a client that asks for what the orchestrator asks   *)
(* for, wait and grace countdowns, with tick callbacks that return or      *)
(* raise, while a window is open on the ride: current_stop_id and          *)
(* timer_started are set and a passenger waits at the stop.  The process   *)
(* stays up and no countdown is stopped.                                   *)
(***************************************************************************)
GracePayloads(t) ==
    {Payload(t, 1, {}, "tag_grace", FALSE), Payload(t, 1, {}, "fn_grace", TRUE)}

ClientRequests(t) ==
    [type : {"wait"}, duration : 1..MaxDuration, on_tick : {"on_tick", "on_tick_raising"},
     payload : {Payload(t, 1, {}, "tag_wait", FALSE)}]
    \cup [type : {"grace"}, duration : {BOARDED_GRACE_SECONDS}, on_tick : {"none"},
          payload : GracePayloads(t)]

OpenWindowRide == [SeedRide EXCEPT !.current_stop_id = 1, !.next_stop_id = 2,
                                   !.timer_started = TRUE]

InitCallbacks ==
    /\ now = 0
    /\ main = "serving"
    /\ crashes = 0
    /\ rides = <<OpenWindowRide>>
    /\ tickets = <<[user |-> 1, ride |-> 1, stop |-> 1, status |-> "PENDING"]>>
    /\ committed = [rides |-> rides, tickets |-> tickets]
    /\ redis_timers = <<>>
    /\ active_timers = <<>>
    /\ tasks = <<>>
    /\ restoring = {}
    /\ callers = <<>>
    /\ last_log = "none"
    /\ procs = <<>>
    /\ last_gps = <<>>
    /\ orch_log = "none"
    /\ ticket_log = "none"
    /\ sent = [u \in Users |-> 0]
    /\ expired_calls = [t \in TimerIds |-> 0]

NextCallbacks ==
    \/ \E t \in TimerIds : \E q \in ClientRequests(t) :
          StartTimerCall(t, q.type, q.duration, q.on_tick, q.payload)
    \/ \E c \in Callers, ok \in BOOLEAN : StartTimerSave(c, ok)
    \/ \E c \in Callers : StartTimerRegister(c)
    \/ \E k \in 1..MaxTasks : TimerStep(k)
    \/ \E k \in 1..MaxTasks, ok \in BOOLEAN : TimerCleanup(k, ok)
    \/ TimeAdvance

SpecCallbacks == InitCallbacks /\ [][NextCallbacks]_vars

(***************************************************************************)
(* RideService.on_grace_timer_expired called on a ledger that holds        *)
(* tickets of two rides, both stops, PENDING and BOARDED, while passengers *)
(* go on selecting stops and marking their tickets, and while              *)
(* mark_as_boarded / mark_as_absent are called for any ticket.             *)
(***************************************************************************)
LedgerRows ==
    [user : 1..MaxPassengers, ride : RideIds, stop : Stops, status : {"PENDING", "BOARDED"}]

\* The ledgers that respect uq_user_ride.
Ledgers ==
    {tk \in UNION {[1..n -> LedgerRows] : n \in 0..MaxLedger} :
        \A i, j \in DOMAIN tk :
            (tk[i].user = tk[j].user /\ tk[i].ride = tk[j].ride) => i = j}

InitFinalize ==
    /\ now = 0
    /\ main = "serving"
    /\ crashes = 0
    /\ rides = <<OpenWindowRide, [OpenWindowRide EXCEPT !.status = "CREATED"]>>
    /\ tickets \in Ledgers
    /\ committed = [rides |-> rides, tickets |-> tickets]
    /\ redis_timers = <<>>
    /\ active_timers = <<>>
    /\ tasks = <<>>
    /\ restoring = {}
    /\ callers = <<>>
    /\ last_log = "none"
    /\ procs = <<>>
    /\ last_gps = <<>>
    /\ orch_log = "none"
    /\ ticket_log = "none"
    /\ sent = [u \in Users |-> 0]
    /\ expired_calls = [t \in TimerIds |-> 0]

\* on_grace_timer_expired(ride=r, stop=s) is called for a ride whose window
\* is open, with the stop the window is open at.
FinalizeCall(r) ==
    /\ main = "serving"
    /\ FreeProcs # {}
    /\ r \in DOMAIN rides
    /\ rides[r].timer_started
    /\ rides[r].current_stop_id # None
    /\ procs' = (NewProc :> [pc |-> "finalize_mark", ride |-> r,
                              stop |-> rides[r].current_stop_id]) @@ procs
    /\ UNCHANGED <<now, main, crashes, dbVars, engineVars, sent, last_gps, orch_log, ticket_log>>

\* The UPDATE of mark_absent_not_boarded_tickets has been executed; the ride
\* object gets current_stop_id = None and timer_started = False.
FinalizeMarkAbsent(p) ==
    /\ p \in DOMAIN procs
    /\ procs[p].pc = "finalize_mark"
    /\ tickets' = mark_absent_not_boarded_tickets(tickets, procs[p].ride, procs[p].stop)
    /\ rides' = on_grace_timer_expired_rides(rides, procs[p].ride)
    /\ procs' = [procs EXCEPT ![p].pc = "finalize_save"]
    /\ UNCHANGED <<now, main, crashes, committed, engineVars, sent, last_gps, orch_log,
                   ticket_log>>

\* RideRepository.save has flushed; the handler returns.
FinalizeSave(p) ==
    /\ p \in DOMAIN procs
    /\ procs[p].pc = "finalize_save"
    /\ procs' = ProcReturned(p)
    /\ UNCHANGED <<now, main, crashes, dbVars, engineVars, sent, last_gps, orch_log, ticket_log>>

NextFinalize ==
    \/ \E r \in RideIds : FinalizeCall(r)
    \/ \E p \in Procs : FinalizeMarkAbsent(p)
    \/ \E p \in Procs : FinalizeSave(p)
    \/ \E u \in Users, s \in Stops : CreateOrUpdateTicket(u, s)
    \/ \E u \in Users, st \in {"BOARDED", "ABSENT"} : MarkActiveTicket(u, st)
    \/ \E i \in 1..(MaxLedger + 1), st \in {"BOARDED", "ABSENT"} : MarkTicketById(i, st)

SpecFinalize == InitFinalize /\ [][NextFinalize]_vars

(***************************************************************************)
(* LocationService.find_stop_in_radius, applied to points on the meridian  *)
(* of the stops.  Coordinates are metres along the meridian, so that the   *)
(* geodesic distance of two points is the absolute difference.             *)
(***************************************************************************)
StopLatitude(s) == s * (STOP_RADIUS_METERS + 1)

\* geodesic((lat1, lon1), (lat2, lon2)).meters
distance_meters(lat1, lat2) == IF lat1 <= lat2 THEN lat2 - lat1 ELSE lat1 - lat2

\* The comparison with a strict bound.
find_stop_in_radius_strict(latitude, stop) ==
    IF distance_meters(latitude, StopLatitude(stop)) < STOP_RADIUS_METERS
    THEN stop
    ELSE None

find_stop_in_radius(latitude, stop) ==
    IF distance_meters(latitude, StopLatitude(stop)) <= STOP_RADIUS_METERS
    THEN stop
    ELSE None

\* A caller awaits find_stop_in_radius(latitude=..., stop=...).
FindStopCall(latitude, stop) ==
    /\ FreeProcs # {}
    /\ procs' = (NewProc :> [pc |-> "radius", latitude |-> latitude, stop |-> stop]) @@ procs
    /\ UNCHANGED <<now, main, crashes, dbVars, engineVars, sent, last_gps, orch_log, ticket_log>>

\* The body of find_stop_in_radius: it has no await and touches no state.
FindStopReturn(p) ==
    /\ p \in DOMAIN procs
    /\ procs[p].pc = "radius"
    /\ procs' = [procs EXCEPT ![p] =
          [pc |-> "radius_done", latitude |-> procs[p].latitude, stop |-> procs[p].stop,
           result |-> find_stop_in_radius(procs[p].latitude, procs[p].stop)]]
    /\ UNCHANGED <<now, main, crashes, dbVars, engineVars, sent, last_gps, orch_log, ticket_log>>

\* The caller has consumed the answer.
FindStopDone(p) ==
    /\ p \in DOMAIN procs
    /\ procs[p].pc = "radius_done"
    /\ procs' = ProcReturned(p)
    /\ UNCHANGED <<now, main, crashes, dbVars, engineVars, sent, last_gps, orch_log, ticket_log>>

NextRadius ==
    \/ \E latitude \in 0..MaxLatitude, stop \in Stops : FindStopCall(latitude, stop)
    \/ \E p \in Procs : FindStopReturn(p)
    \/ \E p \in Procs : FindStopDone(p)

SpecRadius == Init /\ [][NextRadius]_vars

(***************************************************************************)
(* RideService.on_wait_tick, applied to every timer_messages dict of up to *)
(* MaxPassengers chats.  A dict is the sequence of its items in insertion  *)
(* order; an edit either returns or raises an Exception.                   *)
(***************************************************************************)
Chats == 1..MaxPassengers

TimerMessages ==
    {m \in UNION {[1..n -> [chat : Chats, message_id : 1..MaxMessageId]] :
                      n \in 0..MaxPassengers} :
        \A i, j \in DOMAIN m : m[i].chat = m[j].chat => i = j}

\* _build_timer_text(remaining)
build_timer_text(remaining) == <<"left", remaining, "sec">>

\* The edit of item i has been attempted and has returned (ok) or raised.
Attempted(tick, ok) ==
    Append(tick.edits,
           [chat |-> tick.timer_messages[tick.next].chat,
            message_id |-> tick.timer_messages[tick.next].message_id,
            text |-> build_timer_text(tick.remaining), ok |-> ok])

\* The loop without the try around edit_timer: the Exception of an edit
\* reaches the outer handler and ends the loop.
after_edit_no_inner_try(tick, ok) ==
    [tick EXCEPT !.edits = Attempted(tick, ok),
                 !.next = @ + 1,
                 !.pc = IF ok /\ tick.next < Len(tick.timer_messages)
                        THEN "tick_edit" ELSE "tick_returned"]

\* One turn of the loop: the Exception of an edit is caught and logged
\* inside the loop, which goes on to the next item.
after_edit(tick, ok) ==
    [tick EXCEPT !.edits = Attempted(tick, ok),
                 !.next = @ + 1,
                 !.pc = IF tick.next < Len(tick.timer_messages)
                        THEN "tick_edit" ELSE "tick_returned"]

\* on_wait_tick(remaining, timer_messages=...) up to the first await.
WaitTickCall(remaining, msgs) ==
    /\ FreeProcs # {}
    /\ procs' = (NewProc :>
          [pc |-> IF msgs = <<>> THEN "tick_returned" ELSE "tick_edit",
           remaining |-> remaining, timer_messages |-> msgs, next |-> 1,
           edits |-> <<>>]) @@ procs
    /\ UNCHANGED <<now, main, crashes, dbVars, engineVars, sent, last_gps, orch_log, ticket_log>>

\* await self.__bot.edit_timer(...) has returned or raised.
WaitTickEdit(p, ok) ==
    /\ p \in DOMAIN procs
    /\ procs[p].pc = "tick_edit"
    /\ procs' = [procs EXCEPT ![p] = after_edit(procs[p], ok)]
    /\ UNCHANGED <<now, main, crashes, dbVars, engineVars, sent, last_gps, orch_log, ticket_log>>

\* on_wait_tick has returned to __call_tick_safely.
WaitTickReturn(p) ==
    /\ p \in DOMAIN procs
    /\ procs[p].pc = "tick_returned"
    /\ procs' = ProcReturned(p)
    /\ UNCHANGED <<now, main, crashes, dbVars, engineVars, sent, last_gps, orch_log, ticket_log>>

NextTick ==
    \/ \E remaining \in 1..WAIT_TIMER_SECONDS, msgs \in TimerMessages :
          WaitTickCall(remaining, msgs)
    \/ \E p \in Procs, ok \in BOOLEAN : WaitTickEdit(p, ok)
    \/ \E p \in Procs : WaitTickReturn(p)

SpecTick == Init /\ [][NextTick]_vars

(***************************************************************************)
(* A ride between two windows: on_grace_timer_expired is applied to a ride *)
(* whose window is open, the passengers go on selecting stops, and the     *)
(* driver marks the next arrival.                                          *)
(***************************************************************************)
DwellLedgers ==
    {tk \in Ledgers : \A i \in DOMAIN tk : tk[i].ride = 1 /\ tk[i].user \in Users}

InitDwell ==
    /\ now = 0
    /\ main = "serving"
    /\ crashes = 0
    /\ rides = <<OpenWindowRide>>
    /\ tickets \in DwellLedgers
    /\ committed = [rides |-> rides, tickets |-> tickets]
    /\ redis_timers = <<>>
    /\ active_timers = <<>>
    /\ tasks = <<>>
    /\ restoring = {}
    /\ callers = <<>>
    /\ last_log = "none"
    /\ procs = <<>>
    /\ last_gps = <<>>
    /\ orch_log = "none"
    /\ ticket_log = "none"
    /\ sent = [u \in Users |-> 0]
    /\ expired_calls = [t \in TimerIds |-> 0]

NextDwell ==
    \/ \E r \in RideIds : FinalizeCall(r)
    \/ \E p \in Procs : FinalizeMarkAbsent(p)
    \/ \E p \in Procs : FinalizeSave(p)
    \/ \E u \in Users, s \in Stops : CreateOrUpdateTicket(u, s)
    \/ \E d \in Drivers, s \in Stops :
          (\A u \in Users : sent[u] < MaxSent) /\ DriverStopNoted(d, s)
    \/ \E p \in Procs : ArriveNextStop(p)
    \/ \E p \in Procs : ArriveHasWaiting(p)
    \/ \E p \in Procs : ArriveChats(p)
    \/ \E p \in Procs : \E delivered \in SUBSET Users : ArriveSend(p, delivered)
    \/ \E p \in Procs : ArriveSave(p)

SpecDwell == InitDwell /\ [][NextDwell]_vars

(***************************************************************************)
(* The durable record alone: start_timer writes it, the process may die    *)
(* before the countdown is registered, and the seconds pass until the      *)
(* record's time-to-live has run out.                                      *)
(***************************************************************************)
\* A second passes while no request to Redis is in flight.
RecordTimePasses ==
    /\ now < MaxRecordTime
    /\ \A c \in DOMAIN callers : callers[c].pc # "saving"
    /\ now' = now + 1
    /\ UNCHANGED <<main, crashes, dbVars, engineVars, orchVars>>

NextRecord ==
    \/ \E t \in TimerIds, d \in 1..MaxDuration :
          \E p \in ClientPayloads(t) : StartTimerCall(t, "wait", d, "on_tick", p)
    \/ \E c \in Callers, ok \in BOOLEAN : StartTimerSave(c, ok)
    \/ Crash
    \/ RecordTimePasses

SpecRecord == InitTimer /\ [][NextRecord]_vars

(***************************************************************************)
(* restore_all_timers over a store that holds, besides the records the     *)
(* engine wrote, a value that is not JSON and a key "timer:<x>" whose <x>   *)
(* is not a UUID.  The process has just started: the scan is under way.    *)
(***************************************************************************)
\* A key of the pattern timer:* whose id part uuid.UUID() rejects.
BadKey == MaxTimers + 1

\* The values a key may hold: a record written by start_timer, or a string
\* json.loads rejects.
StoredRecords(t) ==
    [type : {"wait"}, duration : 1..MaxDuration, end_at : 0..MaxDuration,
     payload : {JsonRoundTrip(Payload(t, 1, {}, "tag_wait", FALSE))},
     expire_at : {MaxDuration + TTL_MARGIN}]
    \cup {[type |-> "undecodable", expire_at |-> MaxDuration + TTL_MARGIN]}

Stores ==
    UNION {[K -> UNION {StoredRecords(t) : t \in TimerIds}] :
              K \in SUBSET (TimerIds \cup {BadKey})}

InitRestore ==
    /\ now = 0
    /\ main = "restoring"
    /\ crashes = 0
    /\ rides = <<SeedRide>>
    /\ tickets = <<>>
    /\ committed = [rides |-> rides, tickets |-> tickets]
    /\ redis_timers \in Stores
    /\ active_timers = <<>>
    /\ tasks = <<>>
    /\ restoring = DOMAIN redis_timers
    /\ callers = <<>>
    /\ last_log = "none"
    /\ procs = <<>>
    /\ last_gps = <<>>
    /\ orch_log = "none"
    /\ ticket_log = "none"
    /\ sent = [u \in Users |-> 0]
    /\ expired_calls = [t \in TimerIds |-> 0]

\* One turn of the loop for any key the scan yields.  uuid.UUID() of a
\* malformed id raises ValueError, which only the except clause around the
\* whole loop catches: the loop is over.  __load_timer_state answers None
\* for a read that fails (readOk = FALSE) and for a value that is not JSON,
\* and the loop goes on to the next key.
RestoreTurn(key, readOk) ==
    /\ main = "restoring"
    /\ key \in restoring
    /\ IF key \notin TimerIds
       THEN /\ restoring' = {}
            /\ last_log' = "restore_error"
            /\ UNCHANGED <<now, main, crashes, dbVars, redis_timers, active_timers, tasks,
                           callers, expired_calls, orchVars>>
       ELSE IF ~readOk \/ redis_timers[key].type = "undecodable"
       THEN /\ restoring' = restoring \ {key}
            /\ last_log' = "load_error"
            /\ UNCHANGED <<now, main, crashes, dbVars, redis_timers, active_timers, tasks,
                           callers, expired_calls, orchVars>>
       ELSE RestoreOne(key)

NextRestore ==
    \/ \E key \in TimerIds \cup {BadKey}, readOk \in BOOLEAN : RestoreTurn(key, readOk)
    \/ RestoreDone
    \/ \E k \in 1..MaxTasks : TimerStep(k)
    \/ \E k \in 1..MaxTasks, ok \in BOOLEAN : TimerCleanup(k, ok)
    \/ TimeAdvance

SpecRestore == InitRestore /\ [][NextRestore]_vars

(***************************************************************************)
(* Location updates under every configured value of GPS_DEBOUNCE_SECONDS,  *)
(* with the seconds followed beyond the time-to-live of the marker.        *)
(***************************************************************************)
MarkerTimePasses ==
    /\ now < MaxMarkerTime
    /\ procs = <<>>
    /\ now' = now + 1
    /\ UNCHANGED <<main, crashes, dbVars, engineVars, orchVars>>

NextMarker ==
    \/ \E d \in Drivers, live \in BOOLEAN : ProcessDriverLocation(d, live)
    \/ \E g \in 1..MaxDebounce, p \in Procs, ok \in BOOLEAN : LocationDebounceUnder(g, p, ok)
    \/ \E p \in Procs, ok \in BOOLEAN : LocationMark(p, ok)
    \/ \E p \in Procs, within \in BOOLEAN : LocationLookup(p, within)
    \/ MarkerTimePasses

SpecMarker == Init /\ [][NextMarker]_vars

(***************************************************************************)
(* Properties.                                                             *)
(***************************************************************************)
\* The countdown tasks that run for timer id t.
LiveCountdowns(t) ==
    {k \in DOMAIN tasks : tasks[k].timer_id = t /\ tasks[k].pc \in {"new", "loop"}
                          /\ ~tasks[k].cancelled}

\* No invocation of the orchestrator or of the engine's API is in flight.
Quiescent == main = "serving" /\ procs = <<>> /\ callers = <<>>

C3_SecondStartIsNoOp ==
    [][\A t \in TimerIds :
          (/\ t \in DOMAIN active_timers
           /\ \E d \in 1..MaxDuration, p \in ClientPayloads(t) :
                 StartTimerCall(t, "wait", d, "on_tick", p))
          => UNCHANGED <<redis_timers, active_timers, tasks, callers, expired_calls>>]_vars

\* C3 (witness): start_timer has found the id registered, with its durable
\* record and its single countdown in place.
C3_Witness ==
    /\ last_log = "already_started"
    /\ \E t \in DOMAIN active_timers :
          /\ t \in DOMAIN redis_timers
          /\ Cardinality(LiveCountdowns(t)) = 1

\* C4: however the start_timer calls for one id interleave at the durable
\* write, at most one live countdown task exists for that id at any time.
C4_AtMostOneCountdown ==
    \A t \in TimerIds : Cardinality(LiveCountdowns(t)) <= 1

\* C5: for a durable record whose end_at is not later than the current
\* time, restore_all_timers removes the record, invokes the expiry handler
\* exactly once and creates no countdown task.
C5_ExpiredRecordHandledOnce ==
    [][\A t \in TimerIds :
          (/\ LiveRecord(t)
           /\ redis_timers[t].end_at <= now
           /\ RestoreOne(t))
          => /\ t \notin DOMAIN redis_timers'
             /\ expired_calls'[t] = expired_calls[t] + 1
             /\ tasks' = tasks]_vars

\* C6: for a durable record whose end_at is later than the current time,
\* restore_all_timers registers exactly one countdown under the id, with
\* duration end_at - now and no tick callback; the restored countdown never
\* ticks and expires no earlier than end_at.
C6_RestoredCountdown ==
    [][/\ \A t \in TimerIds :
             (/\ LiveRecord(t)
              /\ redis_timers[t].end_at > now
              /\ RestoreOne(t))
             => /\ t \in DOMAIN active_timers'
                /\ LiveCountdowns(t)' = {active_timers'[t]}
                /\ tasks'[active_timers'[t]].restored
                /\ tasks'[active_timers'[t]].duration = redis_timers[t].end_at - now
                /\ tasks'[active_timers'[t]].on_tick = "none"
       /\ \A k \in DOMAIN tasks' : tasks'[k].restored => tasks'[k].ticks = <<>>
       /\ \A k \in DOMAIN tasks :
             (tasks[k].restored /\ tasks[k].remaining = 0 /\ TimerStep(k))
             => now >= tasks[k].end_at]_vars

\* C6 (witness): a restored countdown has run through its whole duration.
C6_Witness ==
    \E k \in DOMAIN tasks :
        /\ tasks[k].restored
        /\ tasks[k].duration > 0
        /\ tasks[k].remaining = 0
        /\ ~tasks[k].cancelled
        /\ now >= tasks[k].end_at

C8_ArriveWhileStartedIsNoOp ==
    [][\A d \in Drivers :
          (/\ get_active_ride(d) # None
           /\ rides[get_active_ride(d)].timer_started
           /\ \E s \in Stops : DriverStopNoted(d, s))
          => UNCHANGED <<procs, rides, tickets, sent, engineVars>>]_vars

\* C8 (witness): arrive_at_stop has returned at its guard for a ride whose
\* window is open.
C8_Witness ==
    /\ orch_log = "timer_already_started"
    /\ \E r \in DOMAIN rides : rides[r].timer_started /\ rides[r].current_stop_id # None

GraceUnderWay(t, p) ==
    \/ \E c \in DOMAIN callers :
          /\ callers[c].timer_id = t
          /\ callers[c].pc \in {"saving", "saved"}
          /\ callers[c].type = "grace"
    \/ /\ t \in DOMAIN active_timers
       /\ active_timers[t] \in DOMAIN tasks
       /\ tasks[active_timers[t]].duration = BOARDED_GRACE_SECONDS
       /\ tasks[active_timers[t]].on_tick = "none"
       /\ tasks[active_timers[t]].payload.ride = p.ride
       /\ tasks[active_timers[t]].payload.stop = p.stop

C10_WaitExpiryStartsGrace ==
    [][\A k \in DOMAIN tasks :
          (/\ tasks[k].remaining = 0
           /\ tasks[k].on_tick = "on_tick"
           /\ TimerStep(k))
          => GraceUnderWay(tasks[k].timer_id, tasks[k].payload)']_vars

\* C13: a live location update that comes less than GPS_DEBOUNCE_SECONDS
\* after the last accepted update of the same driver is discarded: an update
\* passes the debounce check only if no update of that driver accepted less
\* than GPS_DEBOUNCE_SECONDS earlier is being processed.
C13_DebounceDiscards ==
    [][\A p \in Procs :
          (LocationDebounce(p, TRUE) /\ p \in DOMAIN procs')
          => \A q \in DOMAIN procs \ {p} :
                (/\ procs[q].pc \in {"gps_set", "gps_lookup"}
                 /\ procs[q].driver = procs[p].driver)
                => procs[p].at - procs[q].at >= GPS_DEBOUNCE_SECONDS]_vars

\* C14: a live update that is not debounced, from a driver who has a ride
\* with a next stop, reporting a point within the radius of that stop,
\* invokes arrive_at_stop for the ride and that stop.
C14_LocationInvokesArrive ==
    [][\A p \in Procs :
          (/\ LocationLookup(p, TRUE)
           /\ get_active_ride(procs[p].driver) # None
           /\ ~rides[get_active_ride(procs[p].driver)].timer_started)
          => /\ p \in DOMAIN procs'
             /\ procs'[p].pc = "next_stop"
             /\ procs'[p].ride = get_active_ride(procs[p].driver)
             /\ procs'[p].stop = rides[procs'[p].ride].next_stop_id]_vars

\* At most one ticket per (user, ride) pair.
OneTicketPerUserRide ==
    \A i, j \in DOMAIN tickets :
        (tickets[i].user = tickets[j].user /\ tickets[i].ride = tickets[j].ride) => i = j

\* C20: a user holding a PENDING ticket who selects a stop again gets that
\* ticket's stop changed to the new stop, with no ticket created (and there is
\* at most one ticket per (user, ride) pair, OneTicketPerUserRide).
C20_ReselectUpdatesStop ==
    [][\A u \in Users, s \in Stops :
             (CreateOrUpdateTicket(u, s) /\ get_active_ticket(u) # None)
             => /\ OneTicketPerUserRide'
                /\ Len(tickets') = Len(tickets)
                /\ tickets'[get_active_ticket(u)].stop = s]_vars

\* C11: when a ride's grace timer expires, finalize runs: every ticket of
\* the ride reserved at the stop whose status is not BOARDED becomes ABSENT,
\* the ride's current_stop_id becomes null and timer_started false.
C11_GraceExpiryFinalizes ==
    [][\A k \in DOMAIN tasks :
          (/\ tasks[k].remaining = 0
           /\ tasks[k].payload.on_expired \in {"tag_grace", "fn_grace"}
           /\ TimerStep(k))
          => LET r == tasks[k].payload.ride
                 s == tasks[k].payload.stop
             IN /\ \A i \in DOMAIN tickets :
                      (/\ tickets[i].ride = r
                       /\ tickets[i].stop = s
                       /\ tickets[i].status # "BOARDED")
                      => tickets'[i].status = "ABSENT"
                /\ rides'[r].current_stop_id = None
                /\ ~rides'[r].timer_started]_vars

\* The remaining seconds a countdown of duration d ticks with: d, d-1, ..., 1.
Countdown(d) == [i \in 1..d |-> d - i + 1]

\* C16: a countdown of duration d that is not cancelled has invoked on_tick
\* with d, d-1, ..., 1 when it expires, and at its expiry the on_expired
\* callback handed to start_timer is invoked exactly once.
C16_TicksThenExpiredOnce ==
    [][\A k \in DOMAIN tasks :
          (/\ tasks[k].remaining = 0
           /\ ~tasks[k].restored
           /\ TimerStep(k))
          => /\ tasks[k].on_tick # "none" => tasks[k].ticks = Countdown(tasks[k].duration)
             /\ expired_calls'[tasks[k].timer_id] = expired_calls[tasks[k].timer_id] + 1]_vars

\* A tick callback that raises does not end the countdown: while the id is
\* registered the loop goes on to the next second, down to the expiry, where
\* the id is unregistered and the cleanup follows; every tick has been
\* attempted by then.
RaisingTickKeepsCounting ==
    [][\A k \in DOMAIN tasks :
          (/\ tasks[k].on_tick = "on_tick_raising"
           /\ tasks[k].remaining = 0 \/ tasks[k].timer_id \in DOMAIN active_timers
           /\ TimerStep(k))
          => IF tasks[k].remaining > 0
             THEN /\ tasks'[k].pc = "loop"
                  /\ tasks'[k].remaining = tasks[k].remaining - 1
                  /\ tasks'[k].ticks = Append(tasks[k].ticks, tasks[k].remaining)
             ELSE /\ tasks'[k].pc = "cleanup"
                  /\ tasks[k].ticks = Countdown(tasks[k].duration)
                  /\ tasks[k].timer_id \notin DOMAIN active_timers']_vars

\* C17: a failing callback never breaks a countdown: when on_tick raises at
\* every step, the remaining ticks still happen and the expiry callback is
\* still invoked, after which the cleanup removes the timer's state.
C17_FailingCallbackHarmless ==
    [][\A k \in DOMAIN tasks :
          (/\ tasks[k].on_tick = "on_tick_raising"
           /\ tasks[k].remaining = 0
           /\ TimerStep(k))
          => /\ tasks[k].ticks = Countdown(tasks[k].duration)
             /\ expired_calls'[tasks[k].timer_id] > expired_calls[tasks[k].timer_id]
             /\ tasks'[k].pc = "cleanup"
             /\ tasks[k].timer_id \notin DOMAIN active_timers']_vars

\* C15: start_timer writes the durable record before it registers the
\* countdown: a caller reaches the registration only with its record
\* written, and a registration made while serving is made by such a caller.
\* If the write fails the call returns, no task is created and the set of
\* registered timers is unchanged.
C15_SaveBeforeRegister ==
    [][/\ \A c \in Callers :
             StartTimerSave(c, FALSE)
             => /\ c \notin DOMAIN callers'
                /\ UNCHANGED <<active_timers, tasks, redis_timers>>
       /\ \A c \in Callers :
             (/\ c \in DOMAIN callers'
              /\ callers'[c].pc = "saved"
              /\ c \notin DOMAIN callers \/ callers[c].pc # "saved")
             => /\ callers'[c].timer_id \in DOMAIN redis_timers'
                /\ redis_timers'[callers'[c].timer_id].end_at = callers'[c].end_at
                /\ UNCHANGED <<active_timers, tasks>>
       /\ \A t \in TimerIds :
             (/\ main = "serving"
              /\ t \in DOMAIN active_timers'
              /\ t \notin DOMAIN active_timers \/ active_timers'[t] # active_timers[t])
             => \E c \in DOMAIN callers :
                   /\ callers[c].pc = "saved"
                   /\ callers[c].timer_id = t
                   /\ c \notin DOMAIN callers']_vars

\* C15 (witness): the write of the record has failed with a RedisError, the
\* call has returned, and neither a record nor a registration nor a task
\* exists.
C15_Witness ==
    /\ last_log = "redis_error"
    /\ callers = <<>>
    /\ redis_timers = <<>>
    /\ active_timers = <<>>
    /\ tasks = <<>>

C12_FinalizeFrame ==
    [][/\ \A p \in Procs :
             FinalizeMarkAbsent(p)
             => /\ DOMAIN tickets' = DOMAIN tickets
                /\ \A i \in DOMAIN tickets :
                      (\/ tickets[i].status = "BOARDED"
                       \/ tickets[i].ride # procs[p].ride
                       \/ tickets[i].stop # procs[p].stop)
                      => tickets'[i] = tickets[i]
       /\ \A i \in DOMAIN tickets :
             tickets[i].status = "BOARDED" => tickets'[i].status = "BOARDED"]_vars

\* C12 (witness): finalize has run its UPDATE for a ride and stop: a ticket
\* there that was BOARDED is BOARDED, another there has become ABSENT, and a
\* PENDING ticket of the other ride is PENDING.
C12_Witness ==
    \E p \in DOMAIN procs :
        /\ procs[p].pc = "finalize_save"
        /\ \E i, j, l \in DOMAIN tickets :
              /\ tickets[i].ride = procs[p].ride
              /\ tickets[i].stop = procs[p].stop
              /\ tickets[i].status = "BOARDED"
              /\ tickets[j].ride = procs[p].ride
              /\ tickets[j].stop = procs[p].stop
              /\ tickets[j].status = "ABSENT"
              /\ tickets[l].ride # procs[p].ride
              /\ tickets[l].status = "PENDING"

\* C21: BOARDED and ABSENT are terminal: no step changes the status of a
\* ticket that is BOARDED or ABSENT, no ticket disappears, and a status
\* changes only from PENDING to BOARDED or from PENDING to ABSENT.
C21_TerminalStatuses ==
    [][\A i \in DOMAIN tickets :
          /\ i \in DOMAIN tickets'
          /\ tickets[i].status \in {"BOARDED", "ABSENT"}
                => tickets'[i].status = tickets[i].status
          /\ tickets'[i].status # tickets[i].status
                => /\ tickets[i].status = "PENDING"
                   /\ tickets'[i].status \in {"BOARDED", "ABSENT"}]_vars

\* C21 (witness): with a BOARDED ticket and a ticket finalize has made
\* ABSENT in the ledger, mark_as_boarded or mark_as_absent has been called
\* and has ended in its error.
C21_Witness ==
    /\ ticket_log = "mark_error"
    /\ \E i, j \in DOMAIN tickets :
          /\ tickets[i].status = "BOARDED"
          /\ tickets[j].status = "ABSENT"

\* C22: create_or_update_ticket for a user who holds no PENDING ticket
\* creates exactly one PENDING ticket for the user and the stop on the ride
\* that is IN_PROGRESS; with no ride IN_PROGRESS it fails with the not-found
\* error and creates nothing.
C22_CreatesOnePendingTicket ==
    [][\A u \in Users, s \in Stops :
          (CreateOrUpdateTicket(u, s) /\ PendingOf(u) = {})
          => IF InProgress = {}
             THEN tickets' = tickets /\ ticket_log' = "no_ride"
             ELSE \E r \in InProgress :
                     tickets' = Append(tickets,
                        [user |-> u, ride |-> r, stop |-> s, status |-> "PENDING"])]_vars

\* C23: when arrive_at_stop runs at a stop of order n and no stop of order
\* n+1 exists, the arrival ends in an error raised to the caller, and the
\* ride, the messages sent and the engine are unchanged.
C23_NoNextStopFailsLoudly ==
    [][\A p \in Procs :
          (ArriveNextStop(p) /\ get_stop_by_order(procs[p].stop + 1) = None)
          => /\ orch_log' = "error"
             /\ UNCHANGED <<rides, sent, engineVars>>]_vars

C27_PointerIffWindowOpen ==
    Quiescent =>
        \A r \in DOMAIN rides :
            rides[r].current_stop_id # None <=>
                (rides[r].timer_started /\ LiveCountdowns(r) # {})

C26_RestoredDispatchByType ==
    [][\A k \in DOMAIN tasks :
          (/\ tasks[k].restored
           /\ tasks[k].remaining = 0
           /\ LiveRecord(tasks[k].timer_id)
           /\ TimerStep(k))
          => /\ expired_calls'[tasks[k].timer_id] = expired_calls[tasks[k].timer_id] + 1
             /\ redis_timers[tasks[k].timer_id].type = "wait"
                   => GraceUnderWay(tasks[k].timer_id, tasks[k].payload)'
             /\ (/\ redis_timers[tasks[k].timer_id].type = "grace"
                 /\ tasks[k].payload.ride \in DOMAIN rides)
                   => /\ ~rides'[tasks[k].payload.ride].timer_started
                      /\ rides'[tasks[k].payload.ride].current_stop_id = None]_vars

\* C25: find_stop_in_radius answers the stop exactly when the point lies at
\* most STOP_RADIUS_METERS from it (0 and STOP_RADIUS_METERS are accepted,
\* STOP_RADIUS_METERS + 1 is rejected), otherwise None, and it changes
\* nothing: no ride, ticket, timer, message or marker.
C25_WithinRadiusIffAtMost ==
    [][\A p \in Procs :
          FindStopReturn(p)
          => LET lat == procs[p].latitude
                 at  == StopLatitude(procs[p].stop)
                 near == /\ lat - at <= STOP_RADIUS_METERS
                         /\ at - lat <= STOP_RADIUS_METERS
             IN /\ near => procs'[p].result = procs[p].stop
                /\ ~near => procs'[p].result = None
                /\ UNCHANGED <<now, main, crashes, dbVars, engineVars, sent, last_gps,
                               orch_log, ticket_log>>]_vars

\* A point at exactly STOP_RADIUS_METERS from the stop has been accepted
\* while a point one metre further has been rejected.
C25_Witness ==
    \E p, q \in DOMAIN procs :
        /\ procs[p].pc = "radius_done"
        /\ procs[q].pc = "radius_done"
        /\ procs[p].latitude = StopLatitude(procs[p].stop) + STOP_RADIUS_METERS
        /\ procs[p].result = procs[p].stop
        /\ procs[q].latitude = StopLatitude(procs[q].stop) + STOP_RADIUS_METERS + 1
        /\ procs[q].result = None

\* C30: when on_wait_tick returns, every recorded (chat, message) pair has
\* had one edit attempt, in order, with the text for the remaining seconds
\* of this tick, whether or not the edits of other chats failed; the
\* callback ends by returning.
C30_EveryPairAttempted ==
    \A p \in DOMAIN procs :
        /\ procs[p].pc \in {"tick_edit", "tick_returned"}
        /\ procs[p].pc = "tick_returned"
              => /\ Len(procs[p].edits) = Len(procs[p].timer_messages)
                 /\ \A i \in DOMAIN procs[p].timer_messages :
                       /\ procs[p].edits[i].chat = procs[p].timer_messages[i].chat
                       /\ procs[p].edits[i].message_id = procs[p].timer_messages[i].message_id
                       /\ procs[p].edits[i].text = build_timer_text(procs[p].remaining)

\* A tick has returned after the edit for the first chat failed and the
\* edit for the second chat went through.
C30_Witness ==
    \E p \in DOMAIN procs :
        /\ procs[p].pc = "tick_returned"
        /\ Len(procs[p].edits) = 2
        /\ ~procs[p].edits[1].ok
        /\ procs[p].edits[2].ok

C31_RecordOutlivesCountdown ==
    /\ [][\A c \in Callers :
             (StartTimerSave(c, TRUE) /\ callers[c].pc = "saving")
             => LET T == callers[c].timer_id
                IN /\ T \in DOMAIN redis_timers'
                   /\ redis_timers'[T].type = callers[c].type
                   /\ redis_timers'[T].duration = callers[c].duration
                   /\ redis_timers'[T].end_at = now + callers[c].duration
                   /\ redis_timers'[T].expire_at = now + callers[c].duration + TTL_MARGIN]_vars
    /\ [](\A T \in DOMAIN redis_timers :
             /\ now <= redis_timers[T].end_at => LiveRecord(T)
             /\ now >= redis_timers[T].end_at + TTL_MARGIN => ~LiveRecord(T))

\* A record that nothing deleted was present at its end_at and has run out
\* TTL_MARGIN seconds later.
C31_Witness ==
    \E T \in DOMAIN redis_timers :
        /\ main = "down"
        /\ now = redis_timers[T].end_at + TTL_MARGIN
        /\ now = redis_timers[T].expire_at
        /\ ~LiveRecord(T)

\* C32: whatever the drivers do, every driver has at most one ride, so the
\* lookup of the driver's ride resolves to a single ride whenever the
\* driver has one.
C32_OneRidePerDriver ==
    \A d \in Drivers :
        /\ Cardinality(RidesOfDriver(d)) <= 1
        /\ RidesOfDriver(d) # {} => get_active_ride(d) \in RidesOfDriver(d)

\* C33: a countdown task that is ending touches only its own state: while
\* another task is registered under the same id, the end of the old task
\* (its cancellation, its expiry, its cleanup) leaves that registration
\* and the durable record in place.
C33_CleanupOnlyOwnState ==
    [][\A k \in DOMAIN tasks : \A t \in TimerIds :
          (/\ tasks[k].timer_id = t
           /\ t \in DOMAIN active_timers
           /\ active_timers[t] # k
           /\ \/ TimerCancelled(k)
              \/ tasks[k].remaining = 0 /\ TimerStep(k)
              \/ \E ok \in BOOLEAN : TimerCleanup(k, ok))
          => /\ t \in DOMAIN active_timers'
             /\ active_timers'[t] = active_timers[t]
             /\ LiveRecord(t) => LiveRecord(t)']_vars

\* The last call of the engine's API for timer id t was a stop_timer that
\* has returned, and no task of t is left to end.
StoppedAtRest(t) ==
    /\ main = "serving"
    /\ last_log \in {"stopped", "stop_redis_error"}
    /\ \A c \in DOMAIN callers : callers[c].timer_id # t
    /\ \A k \in DOMAIN tasks : tasks[k].timer_id # t

\* C34: a timer that stop_timer has stopped never fires later: once the
\* call has returned, with or without an error of the store, and the
\* cancelled task has ended, no live durable record of the timer is left,
\* so that a restore_all_timers after a restart finds nothing to recreate a
\* countdown from or to invoke the expiry handler for.
C34_StoppedNeverRestored ==
    \A t \in TimerIds : StoppedAtRest(t) => ~LiveRecord(t)

\* C35: restore_all_timers handles every key on its own: whatever is wrong
\* with one key or its value, the turn of the loop for it ends with every
\* other key the scan yields still to be handled, and the restore goes on
\* to its end without raising.
C35_RestoreHandlesEachRecord ==
    [][\A key \in TimerIds \cup {BadKey} :
          (\E readOk \in BOOLEAN : RestoreTurn(key, readOk))
          => /\ restoring' = restoring \ {key}
             /\ main' = "restoring"]_vars

\* C36: process_driver_location never raises to its caller: every step in
\* which a call ends, after a failure of Redis, of the database or of
\* anything else, or after the debounce check, leaves the call returned
\* with at most an error logged, and it returns no stop id: it touches no
\* ride, no ticket, no timer and sends nothing.
C36_LocationNeverRaises ==
    [][\A p \in Procs :
          (/\ p \in DOMAIN procs
           /\ procs[p].pc \in {"gps_get", "gps_set", "gps_lookup"}
           /\ p \notin DOMAIN procs'
           /\ main' = main)
          => /\ orch_log' \in {orch_log, "location_error"}
             /\ orch_log' # "location_raised"
             /\ UNCHANGED <<dbVars, engineVars, sent>>]_vars

\* An accepted live update has ended in the error of the lookup, which was
\* logged and absorbed.
C36_Witness ==
    /\ orch_log = "location_error"
    /\ procs = <<>>
    /\ main = "serving"
    /\ crashes = 0
    /\ \E d \in DOMAIN last_gps : last_gps[d].at = now /\ RidesOfDriver(d) # {}

\* C37: for every configured value g of GPS_DEBOUNCE_SECONDS, an update
\* that comes less than g seconds after the accepted update of the same
\* driver finds the marker of that update in the store and is discarded.
C37_MarkerOutlivesDebounce ==
    [][\A p \in Procs, g \in 1..MaxDebounce :
          (/\ LocationDebounceUnder(g, p, TRUE)
           /\ procs[p].driver \in DOMAIN last_gps
           /\ procs[p].at - last_gps[procs[p].driver].at < g)
          => /\ now < last_gps[procs[p].driver].expire_at
             /\ p \notin DOMAIN procs']_vars

\* C38: no operation changes the status of a ride: a ride that start_ride
\* creates has the status CREATED and every ride keeps its status in every
\* step, so a ride created through start_ride is never among the
\* IN_PROGRESS rides create_or_update_ticket looks for.
C38_RideStatusFrame ==
    [][/\ \A r \in DOMAIN rides \cap DOMAIN rides' : rides'[r].status = rides[r].status
       /\ \A r \in DOMAIN rides' \ DOMAIN rides :
             rides'[r].status = "CREATED" /\ r \notin InProgress']_vars

\* The only ride is one a driver started and has arrived at a stop with; a
\* passenger who then selected a stop was told that no ride is under way.
C38_Witness ==
    /\ Len(rides) = 1
    /\ rides[1].status = "CREATED"
    /\ rides[1].current_stop_id # None
    /\ ticket_log = "no_ride"
    /\ InProgress = {}

====
